---- MODULE Spec2Model ----
(***************************************************************************)
(* Model of streamlit_app.py: the IPL player performance analyzer.         *)
(*                                                                         *)
(* Python strings are sequences of one-character strings, so that          *)
(* substring tests, str.replace, the regular expression of get_player_id   *)
(* and the f-string concatenations are computed character by character.    *)
(* A function call yields a record [raised, exc, value, printed]: raised   *)
(* tells whether an exception left the function, exc names it, value is    *)
(* the returned value and printed is what the call wrote with print().     *)
(***************************************************************************)
EXTENDS Integers, Sequences, FiniteSets, TLC

VARIABLES
    pc,            \* position of the current run of main()
    player_name,   \* main: st.text_input("Enter Player Name")
    profile_url,   \* main: result of get_player_profile_url
    player_id,     \* main: result of get_player_id
    bp, opp, res, inn, today,   \* main: the filter widgets and datetime.today()
    filters,       \* main: the filters dict, in insertion order
    batting_df, bowling_df,     \* main: the scraped tables
    out,           \* main: the st.* display calls made so far, in order
    calls,         \* main: the pipeline functions invoked so far, in order
    fetched,       \* URLs handed to requests.get so far, in order
    stdout,        \* lines written with print()
    exc,           \* the exception that ended the run of main, or ""
    call, ret      \* a single call of one pipeline function and its result

mainvars == <<pc, player_name, profile_url, player_id, bp, opp, res, inn, today,
              filters, batting_df, bowling_df, out, calls, fetched, stdout, exc>>
vars == <<mainvars, call, ret>>

----------------------------------------------------------------------------
(* Bounds of the model *)

MaxLinks == 2      \* hyperlinks on a search page
MaxPieces == 3     \* pieces a profile URL or href is assembled from
MaxFilters == 3    \* entries of a FilterSet
MaxElems == 2      \* table/div elements on a stats or scorecard page

----------------------------------------------------------------------------
(* Python values *)

None == <<"None">>          \* not a string: "None" is not a character

Truthy(v) == v # None /\ v # <<>>

Ret(v) == [raised |-> FALSE, exc |-> "", value |-> v, printed |-> <<>>]

Raise(e) == [raised |-> TRUE, exc |-> e, value |-> None, printed |-> <<>>]

RECURSIVE Flatten(_)
Flatten(ss) == IF ss = <<>> THEN <<>> ELSE Head(ss) \o Flatten(Tail(ss))

RECURSIVE Join(_, _)
Join(sep, list) ==
    IF list = <<>> THEN <<>>
    ELSE IF Len(list) = 1 THEN list[1]
    ELSE list[1] \o sep \o Join(sep, Tail(list))

RECURSIVE Replace(_, _, _)
Replace(s, old, new) ==
    IF s = <<>> THEN <<>>
    ELSE <<IF Head(s) = old THEN new ELSE Head(s)>> \o Replace(Tail(s), old, new)

Contains(sub, s) ==
    \E i \in 1..(Len(s) - Len(sub) + 1) : SubSeq(s, i, i + Len(sub) - 1) = sub

\* Sequences over S of length at most n
SeqUpTo(S, n) == UNION {[1..k -> S] : k \in 0..n}

----------------------------------------------------------------------------
(* String literals of the source *)

Origin == <<"h","t","t","p","s",":","/","/","w","w","w",".","c","r","i","c","b","u","z","z",".","c","o","m">>
SearchPath == <<"/","s","e","a","r","c","h","?","q","=">>
PlayerSeg == <<"/","p","l","a","y","e","r","/">>
ProfilesPath == <<"/","p","r","o","f","i","l","e","s","/">>
CareerStats == <<"/","c","a","r","e","e","r","-","s","t","a","t","s">>
StatsTypeEq == <<"s","t","a","t","s","_","t","y","p","e","=">>
TournamentEq == <<"t","o","u","r","n","a","m","e","n","t","=">>
ScorecardPath == <<"/","l","i","v","e","-","c","r","i","c","k","e","t","-","s","c","o","r","e","c","a","r","d","/">>
Batting == <<"b","a","t","t","i","n","g">>
Bowling == <<"b","o","w","l","i","n","g">>
Ipl == <<"i","p","l">>
KeyBattingPosition == <<"b","a","t","t","i","n","g","_","p","o","s","i","t","i","o","n">>
KeyOpposition == <<"o","p","p","o","s","i","t","i","o","n">>
KeyResult == <<"r","e","s","u","l","t">>
KeyInningsNumber == <<"i","n","n","i","n","g","s","_","n","u","m","b","e","r">>
KeySpanmin == <<"s","p","a","n","m","i","n">>
KeySpanmax == <<"s","p","a","n","m","a","x">>
StatsClass == "cb-col cb-col-100 cb-ltst-wgt-hdr"
NotAvailable == <<"N","o","t"," ","a","v","a","i","l","a","b","l","e">>
PitchNotAvailable == <<"P","i","t","c","h"," ","r","e","p","o","r","t"," ","n","o","t"," ","a","v","a","i","l","a","b","l","e">>

----------------------------------------------------------------------------
(* The outcome of requests.get(url) followed by BeautifulSoup(response.text): *)
(* the parsed page, or the exception one of the two raised.                   *)

FetchFailures == {"ConnectionError", "ParserRejectedMarkup"}

Responses(pages) ==
    {[kind |-> k, page |-> <<>>] : k \in FetchFailures}
        \cup {[kind |-> "ok", page |-> p] : p \in pages}

\* what soup.find returns when no element matches (Python's None)
NoTag == [tag |-> "None", class |-> "", text |-> <<>>, rows |-> <<>>]

\* soup.find(tag, class_=cls): the first element of that tag and class, or None
RECURSIVE find(_, _, _)
find(page, tag, cls) ==
    IF page = <<>> THEN NoTag
    ELSE IF Head(page).tag = tag /\ Head(page).class = cls THEN Head(page)
    ELSE find(Tail(page), tag, cls)

----------------------------------------------------------------------------
(* Step 1: get_player_profile_url *)

SearchUrl(name) == Origin \o SearchPath \o Replace(name, " ", "+")

\* soup.find_all('a', href=True): the href of every anchor that has one
RECURSIVE find_all_href(_)
find_all_href(page) ==
    IF page = <<>> THEN <<>>
    ELSE IF Head(page) # None THEN <<Head(page)>> \o find_all_href(Tail(page))
    ELSE find_all_href(Tail(page))

\* faulty variant: the loop keeps the last matching link instead of returning at the first
RECURSIVE LastPlayerLink(_)
LastPlayerLink(links) ==
    IF links = <<>> THEN None
    ELSE IF Contains(PlayerSeg, links[Len(links)]) THEN Origin \o links[Len(links)]
    ELSE LastPlayerLink(SubSeq(links, 1, Len(links) - 1))

\* the for loop over links: return at the first href containing '/player/'
RECURSIVE FirstPlayerLink(_)
FirstPlayerLink(links) ==
    IF links = <<>> THEN None
    ELSE IF Contains(PlayerSeg, Head(links)) THEN Origin \o Head(links)
    ELSE FirstPlayerLink(Tail(links))

get_player_profile_url(name, resp) ==
    IF resp.kind # "ok" THEN Raise(resp.kind)
    ELSE Ret(FirstPlayerLink(find_all_href(resp.page)))

----------------------------------------------------------------------------
(* Step 2: get_player_id, re.search(r'/player/(.+?)/', profile_url) *)

\* (.+?)/ with the group tried from end e on: the least end of the group such that
\* the characters of the group are not newlines and a '/' follows; 0 when none
RECURSIVE LazyGroupEnd(_, _)
LazyGroupEnd(s, e) ==
    IF e >= Len(s) THEN 0
    ELSE IF s[e] = "\n" THEN 0
    ELSE IF s[e + 1] = "/" THEN e
    ELSE LazyGroupEnd(s, e + 1)

\* re.search: the match at the leftmost start i, group 1 of it
RECURSIVE re_search_player(_, _)
re_search_player(s, i) ==
    IF i + Len(PlayerSeg) - 1 > Len(s) THEN None
    ELSE IF SubSeq(s, i, i + Len(PlayerSeg) - 1) = PlayerSeg
            /\ LazyGroupEnd(s, i + Len(PlayerSeg)) # 0
         THEN SubSeq(s, i + Len(PlayerSeg), LazyGroupEnd(s, i + Len(PlayerSeg)))
    ELSE re_search_player(s, i + 1)

get_player_id(url) == Ret(re_search_player(url, 1))

----------------------------------------------------------------------------
(* Step 3: generate_filtered_url. filters is the dict as the sequence of its *)
(* <<key, value>> items in iteration order.                                  *)

\* faulty variant: the loop appends every entry, blank or not
RECURSIVE AppendAllFilters(_, _)
AppendAllFilters(params, fs) ==
    IF fs = <<>> THEN params
    ELSE AppendAllFilters(
            Append(params, Head(fs)[1] \o <<"=">>
                              \o (IF Head(fs)[2] = None THEN <<>> ELSE Head(fs)[2])),
            Tail(fs))

RECURSIVE AppendFilters(_, _)
AppendFilters(params, fs) ==
    IF fs = <<>> THEN params
    ELSE AppendFilters(
            IF Truthy(Head(fs)[2])
            THEN Append(params, Head(fs)[1] \o <<"=">> \o Head(fs)[2])
            ELSE params,
            Tail(fs))

generate_filtered_url(id, fs, stats_type, tournament) ==
    LET base == Origin \o ProfilesPath \o id \o CareerStats
        params == AppendFilters(<<StatsTypeEq \o stats_type, TournamentEq \o tournament>>, fs)
    IN Ret(base \o <<"?">> \o Join(<<"&">>, params))

----------------------------------------------------------------------------
(* Step 4: scrape_stats_table *)

\* pd.read_html(str(table))[0]: ValueError when the markup holds no table rows
read_html(table) ==
    IF table.rows = <<>> THEN Raise("ValueError")
    ELSE Ret(<<"DataFrame", Head(table.rows), Tail(table.rows)>>)

\* the except branch: print the error, return None
Caught(e) == [raised |-> FALSE, exc |-> "", value |-> None,
              printed |-> <<"Error scraping stats: " \o e>>]

\* faulty variant: no try/except around the body
scrape_stats_table_unguarded(resp) ==
    IF resp.kind # "ok" THEN Raise(resp.kind)
    ELSE LET table == find(resp.page, "table", StatsClass)
         IN IF table # NoTag THEN read_html(table) ELSE Ret(None)

scrape_stats_table(resp) ==
    IF resp.kind # "ok" THEN Caught(resp.kind)
    ELSE LET table == find(resp.page, "table", StatsClass)
         IN IF table # NoTag
            THEN IF read_html(table).raised
                 THEN Caught(read_html(table).exc)
                 ELSE read_html(table)
            ELSE Ret(None)

----------------------------------------------------------------------------
(* Step 5: get_match_details *)

\* faulty variant: the pitch report is looked up under a class of its own
get_match_details_distinct(resp) ==
    IF resp.kind # "ok" THEN Raise(resp.kind)
    ELSE LET venue == find(resp.page, "div", StatsClass)
             pitch_report == find(resp.page, "div", "cb-pitch")
         IN Ret(<<IF venue # NoTag THEN venue.text ELSE NotAvailable,
                  IF pitch_report # NoTag THEN pitch_report.text ELSE PitchNotAvailable>>)

get_match_details(resp) ==
    IF resp.kind # "ok" THEN Raise(resp.kind)
    ELSE LET venue == find(resp.page, "div", StatsClass)
             pitch_report == find(resp.page, "div", StatsClass)
         IN Ret(<<IF venue # NoTag THEN venue.text ELSE NotAvailable,
                  IF pitch_report # NoTag THEN pitch_report.text ELSE PitchNotAvailable>>)

----------------------------------------------------------------------------
(* datetime.today(), timedelta(days=365) and strftime('%Y-%m-%d').            *)
(* A date is <<year, month, day>>; the arithmetic goes through the proleptic  *)
(* Gregorian ordinal, as datetime does.                                       *)

IsLeap(y) == y % 4 = 0 /\ (y % 100 # 0 \/ y % 400 = 0)

DaysInMonth(y, m) ==
    IF m = 2 THEN (IF IsLeap(y) THEN 29 ELSE 28)
    ELSE IF m \in {4, 6, 9, 11} THEN 30 ELSE 31

DaysBeforeYear(y) ==
    (y - 1) * 365 + (y - 1) \div 4 - (y - 1) \div 100 + (y - 1) \div 400

RECURSIVE DaysBeforeMonth(_, _)
DaysBeforeMonth(y, m) ==
    IF m = 1 THEN 0 ELSE DaysBeforeMonth(y, m - 1) + DaysInMonth(y, m - 1)

toordinal(d) == DaysBeforeYear(d[1]) + DaysBeforeMonth(d[1], d[2]) + d[3]

fromordinal(n) ==
    LET y == CHOOSE yy \in 1..9999 :
                 DaysBeforeYear(yy) < n /\ n <= DaysBeforeYear(yy + 1)
        m == CHOOSE mm \in 1..12 :
                 /\ DaysBeforeYear(y) + DaysBeforeMonth(y, mm) < n
                 /\ n <= DaysBeforeYear(y) + DaysBeforeMonth(y, mm) + DaysInMonth(y, mm)
    IN <<y, m, n - DaysBeforeYear(y) - DaysBeforeMonth(y, m)>>

MinusDays(d, k) == fromordinal(toordinal(d) - k)

DigitChar(n) == <<"0","1","2","3","4","5","6","7","8","9">>[n + 1]

\* zero-padded decimal of n on w digits
RECURSIVE Padded(_, _)
Padded(n, w) == IF w = 0 THEN <<>> ELSE Padded(n \div 10, w - 1) \o <<DigitChar(n % 10)>>

strftime(d) == Padded(d[1], 4) \o <<"-">> \o Padded(d[2], 2) \o <<"-">> \o Padded(d[3], 2)

----------------------------------------------------------------------------
(* The inputs: what the user types and selects, the clock, what the site answers *)

Kohli == <<"k","o","h","l","i">>
ViratKohli == <<"v","i","r","a","t"," ","k","o","h","l","i">>
Names == {<<>>, ViratKohli}

\* hrefs found on a search page
Hrefs == { PlayerSeg \o Kohli \o <<"/","v">>,         \* /player/kohli/v
           <<"x">> \o PlayerSeg \o <<"7","/">>,       \* x/player/7/
           PlayerSeg \o <<"a","b">>,                  \* /player/ab
           <<"/","n","e","w","s">> }                  \* /news

\* a search page: its anchors in document order, each its href, or None without one
SearchPages == SeqUpTo(Hrefs \cup {None}, MaxLinks)

\* profile URLs for get_player_id, assembled from pieces
Pieces == {PlayerSeg, <<"/">>, <<"a">>, <<"b">>, <<"\n">>}
Urls == {Flatten(ps) : ps \in SeqUpTo(Pieces, MaxPieces)}

All == <<"A","l","l">>
Won == <<"W","o","n">>
Lost == <<"L","o","s","t">>
Draw == <<"D","r","a","w">>
ResultChoices == {All, Won, Lost, Draw}
InningsChoices == {All, <<"1">>, <<"2">>}
PositionInputs == {<<>>, <<"3">>}
OppositionInputs == {<<>>, <<"7">>}
Todays == {<<2024, 2, 29>>, <<2026, 11, 2>>}

\* the elements of a stats or scorecard page that the selectors look at
Elements ==
    { [tag |-> "table", class |-> StatsClass, text |-> <<>>,
       rows |-> << <<"M", "R">>, <<"1", "9">> >>],
      [tag |-> "table", class |-> StatsClass, text |-> <<>>, rows |-> <<>>],
      [tag |-> "table", class |-> "other", text |-> <<>>, rows |-> << <<"x">> >>],
      [tag |-> "div", class |-> StatsClass, text |-> <<"E","d","e","n">>, rows |-> <<>>],
      [tag |-> "div", class |-> StatsClass, text |-> <<"d","r","y">>, rows |-> <<>>],
      [tag |-> "div", class |-> "cb-pitch", text |-> <<"f","l","a","t">>, rows |-> <<>>] }

Pages == SeqUpTo(Elements, MaxElems)

\* FilterSets for generate_filtered_url: distinct keys, any order, optional values
FilterKeys == {KeyBattingPosition, KeyOpposition, KeyResult, KeyInningsNumber}
FilterValues == {<<>>, None, <<"1">>, <<" ">>}
FilterSets ==
    {fs \in SeqUpTo(FilterKeys \X FilterValues, MaxFilters) :
        \A i, j \in 1..Len(fs) : i # j => fs[i][1] # fs[j][1]}

----------------------------------------------------------------------------
(* main(), one action per stretch of code between two requests *)

Shown(kind, text, arg) == [kind |-> kind, text |-> text, arg |-> arg]

Called(fn, arg) == [fn |-> fn, arg |-> arg]

ResultCode(r) ==
    IF r = Won THEN <<"1">> ELSE IF r = Lost THEN <<"2">>
    ELSE IF r = Draw THEN <<"3">> ELSE <<>>

MatchUrl(id) == Origin \o ScorecardPath \o id

\* lines 73-78: the title and the player name input
Start ==
    /\ pc = "start"
    /\ \E name \in Names :
        /\ player_name' = name
        /\ pc' = IF Truthy(name) THEN "resolve" ELSE "done"
    /\ out' = Append(out, Shown("title", "IPL Player Performance Analyzer", <<>>))
    /\ UNCHANGED <<profile_url, player_id, bp, opp, res, inn, today, filters,
                   batting_df, bowling_df, calls, fetched, stdout, exc, call, ret>>

\* faulty variant: the `return` after "Player not found" is missing
ResolveNoReturn ==
    /\ pc = "resolve"
    /\ calls' = Append(calls, Called("get_player_profile_url", player_name))
    /\ fetched' = Append(fetched, SearchUrl(player_name))
    /\ \E resp \in Responses(SearchPages) :
        LET r == get_player_profile_url(player_name, resp) IN
        IF r.raised
        THEN /\ pc' = "aborted"
             /\ exc' = r.exc
             /\ UNCHANGED <<profile_url, out>>
        ELSE /\ profile_url' = r.value
             /\ exc' = exc
             /\ IF ~Truthy(r.value)
                THEN /\ out' = Append(out, Shown("error",
                                  "Player not found. Please try with another name.", <<>>))
                     /\ pc' = "extract"
                ELSE /\ out' = out
                     /\ pc' = "extract"
    /\ UNCHANGED <<player_name, player_id, bp, opp, res, inn, today, filters,
                   batting_df, bowling_df, stdout, call, ret>>

\* lines 79-83
Resolve ==
    /\ pc = "resolve"
    /\ calls' = Append(calls, Called("get_player_profile_url", player_name))
    /\ fetched' = Append(fetched, SearchUrl(player_name))
    /\ \E resp \in Responses(SearchPages) :
        LET r == get_player_profile_url(player_name, resp) IN
        IF r.raised
        THEN /\ pc' = "aborted"
             /\ exc' = r.exc
             /\ UNCHANGED <<profile_url, out>>
        ELSE /\ profile_url' = r.value
             /\ exc' = exc
             /\ IF ~Truthy(r.value)
                THEN /\ out' = Append(out, Shown("error",
                                  "Player not found. Please try with another name.", <<>>))
                     /\ pc' = "done"
                ELSE /\ out' = out
                     /\ pc' = "extract"
    /\ UNCHANGED <<player_name, player_id, bp, opp, res, inn, today, filters,
                   batting_df, bowling_df, stdout, call, ret>>

\* lines 85-90
Extract ==
    /\ pc = "extract"
    /\ calls' = Append(calls, Called("get_player_id", profile_url))
    /\ LET r == get_player_id(profile_url) IN
        /\ player_id' = r.value
        /\ IF ~Truthy(r.value)
           THEN /\ out' = Append(out, Shown("error", "Unable to extract player ID.", <<>>))
                /\ pc' = "done"
           ELSE /\ out' = Append(out, Shown("success", "Found Player ID: ", r.value))
                /\ pc' = "filters"
    /\ UNCHANGED <<player_name, profile_url, bp, opp, res, inn, today, filters,
                   batting_df, bowling_df, fetched, stdout, exc, call, ret>>

\* lines 93-112: the filter widgets, the date window, the filters dict
Filters ==
    /\ pc = "filters"
    /\ \E b \in PositionInputs, o \in OppositionInputs, r \in ResultChoices,
          i \in InningsChoices, t \in Todays :
        /\ bp' = b /\ opp' = o /\ res' = r /\ inn' = i /\ today' = t
        /\ filters' = << <<KeyBattingPosition, b>>,
                         <<KeyOpposition, o>>,
                         <<KeyResult, ResultCode(r)>>,
                         <<KeyInningsNumber, IF i # All THEN i ELSE <<>> >>,
                         <<KeySpanmin, strftime(MinusDays(t, 365))>>,
                         <<KeySpanmax, strftime(t)>> >>
    /\ out' = Append(out, Shown("subheader", "Apply Filters for IPL Matches", <<>>))
    /\ pc' = "batting"
    /\ UNCHANGED <<player_name, profile_url, player_id, batting_df, bowling_df,
                   calls, fetched, stdout, exc, call, ret>>

\* the display of a scraped table: st.write and st.download_button, or st.warning
ShowStats(df, warning, label, file_name) ==
    IF df # None
    THEN <<Shown("write", "", df), Shown("download_button", label, file_name)>>
    ELSE <<Shown("warning", warning, <<>>)>>

\* faulty variant: the run stops when no batting table is found
BattingStatsStopsOnAbsent ==
    /\ pc = "batting"
    /\ LET batting_url == generate_filtered_url(player_id, filters, Batting, Ipl).value IN
        /\ calls' = calls \o <<Called("generate_filtered_url", Batting),
                               Called("scrape_stats_table", batting_url)>>
        /\ fetched' = Append(fetched, batting_url)
    /\ \E resp \in Responses(Pages) :
        LET r == scrape_stats_table(resp) IN
        /\ batting_df' = r.value
        /\ stdout' = stdout \o r.printed
        /\ out' = out \o <<Shown("subheader", "Batting Stats", <<>>)>>
                      \o ShowStats(r.value, "No Batting stats found for the applied filters.",
                                   "Download Batting Stats as CSV",
                                   player_name \o <<"_","i","p","l","_","b","a","t","t","i","n","g","_","s","t","a","t","s",".","c","s","v">>)
    /\ pc' = IF batting_df' = None THEN "done" ELSE "bowling"
    /\ UNCHANGED <<player_name, profile_url, player_id, bp, opp, res, inn, today,
                   filters, bowling_df, exc, call, ret>>

\* lines 115-130
BattingStats ==
    /\ pc = "batting"
    /\ LET batting_url == generate_filtered_url(player_id, filters, Batting, Ipl).value IN
        /\ calls' = calls \o <<Called("generate_filtered_url", Batting),
                               Called("scrape_stats_table", batting_url)>>
        /\ fetched' = Append(fetched, batting_url)
    /\ \E resp \in Responses(Pages) :
        LET r == scrape_stats_table(resp) IN
        /\ batting_df' = r.value
        /\ stdout' = stdout \o r.printed
        /\ out' = out \o <<Shown("subheader", "Batting Stats", <<>>)>>
                      \o ShowStats(r.value, "No Batting stats found for the applied filters.",
                                   "Download Batting Stats as CSV",
                                   player_name \o <<"_","i","p","l","_","b","a","t","t","i","n","g","_","s","t","a","t","s",".","c","s","v">>)
    /\ pc' = "bowling"
    /\ UNCHANGED <<player_name, profile_url, player_id, bp, opp, res, inn, today,
                   filters, bowling_df, exc, call, ret>>

\* lines 133-148
BowlingStats ==
    /\ pc = "bowling"
    /\ LET bowling_url == generate_filtered_url(player_id, filters, Bowling, Ipl).value IN
        /\ calls' = calls \o <<Called("generate_filtered_url", Bowling),
                               Called("scrape_stats_table", bowling_url)>>
        /\ fetched' = Append(fetched, bowling_url)
    /\ \E resp \in Responses(Pages) :
        LET r == scrape_stats_table(resp) IN
        /\ bowling_df' = r.value
        /\ stdout' = stdout \o r.printed
        /\ out' = out \o <<Shown("subheader", "Bowling Stats", <<>>)>>
                      \o ShowStats(r.value, "No Bowling stats found for the applied filters.",
                                   "Download Bowling Stats as CSV",
                                   player_name \o <<"_","i","p","l","_","b","o","w","l","i","n","g","_","s","t","a","t","s",".","c","s","v">>)
    /\ pc' = "match"
    /\ UNCHANGED <<player_name, profile_url, player_id, bp, opp, res, inn, today,
                   filters, batting_df, exc, call, ret>>

\* lines 151-157
MatchDetails ==
    /\ pc = "match"
    /\ calls' = Append(calls, Called("get_match_details", MatchUrl(player_id)))
    /\ fetched' = Append(fetched, MatchUrl(player_id))
    /\ \E resp \in Responses(Pages) :
        LET r == get_match_details(resp) IN
        IF r.raised
        THEN /\ pc' = "aborted"
             /\ exc' = r.exc
             /\ out' = Append(out, Shown("subheader", "Ground Venue and Pitch Report", <<>>))
        ELSE /\ pc' = "done"
             /\ exc' = exc
             /\ out' = out \o <<Shown("subheader", "Ground Venue and Pitch Report", <<>>),
                                Shown("write", "**Ground Venue**: ", r.value[1]),
                                Shown("write", "**Pitch Report**: ", r.value[2])>>
    /\ UNCHANGED <<player_name, profile_url, player_id, bp, opp, res, inn, today,
                   filters, batting_df, bowling_df, stdout, call, ret>>

Init ==
    /\ pc = "start"
    /\ player_name = <<>>
    /\ profile_url = None /\ player_id = None
    /\ bp = <<>> /\ opp = <<>> /\ res = All /\ inn = All /\ today = <<1, 1, 1>>
    /\ filters = <<>>
    /\ batting_df = None /\ bowling_df = None
    /\ out = <<>> /\ calls = <<>> /\ fetched = <<>> /\ stdout = <<>>
    /\ exc = ""
    /\ call = [fn |-> "none"]
    /\ ret = Ret(None)

Next ==
    \/ Start
    \/ Resolve
    \/ Extract
    \/ Filters
    \/ BattingStats
    \/ BowlingStats
    \/ MatchDetails

\* one run of main()
Spec == Init /\ [][Next]_vars

----------------------------------------------------------------------------
(* Each pipeline function called on its own, on every input of the bounded sets *)

Call_get_player_profile_url ==
    /\ call.fn = "none"
    /\ \E name \in Names, resp \in Responses(SearchPages) :
        /\ call' = [fn |-> "get_player_profile_url", name |-> name, resp |-> resp]
        /\ ret' = get_player_profile_url(name, resp)
    /\ UNCHANGED mainvars

Call_get_player_id ==
    /\ call.fn = "none"
    /\ \E url \in Urls :
        /\ call' = [fn |-> "get_player_id", url |-> url]
        /\ ret' = get_player_id(url)
    /\ UNCHANGED mainvars

Call_generate_filtered_url ==
    /\ call.fn = "none"
    /\ \E id \in {Kohli, <<"7">>}, fs \in FilterSets, st \in {Batting, Bowling} :
        /\ call' = [fn |-> "generate_filtered_url", id |-> id, fs |-> fs,
                    stats_type |-> st, tournament |-> Ipl]
        /\ ret' = generate_filtered_url(id, fs, st, Ipl)
    /\ UNCHANGED mainvars

Call_scrape_stats_table ==
    /\ call.fn = "none"
    /\ \E resp \in Responses(Pages) :
        /\ call' = [fn |-> "scrape_stats_table", resp |-> resp]
        /\ ret' = scrape_stats_table(resp)
    /\ UNCHANGED mainvars

Call_get_match_details ==
    /\ call.fn = "none"
    /\ \E resp \in Responses(Pages) :
        /\ call' = [fn |-> "get_match_details", resp |-> resp]
        /\ ret' = get_match_details(resp)
    /\ UNCHANGED mainvars

UnitNext ==
    \/ Call_get_player_profile_url
    \/ Call_get_player_id
    \/ Call_generate_filtered_url
    \/ Call_scrape_stats_table
    \/ Call_get_match_details

UnitSpec == Init /\ [][UnitNext]_vars

----------------------------------------------------------------------------
(* Properties of one run of main(), checked under Spec *)

EndsWith(s, suffix) ==
    Len(s) >= Len(suffix) /\ SubSeq(s, Len(s) - Len(suffix) + 1, Len(s)) = suffix

\* the names of the pipeline functions called so far, in order
CalledFns == [k \in DOMAIN calls |-> calls[k].fn]

IsPrefix(s, t) == Len(s) <= Len(t) /\ s = SubSeq(t, 1, Len(s))

\* the URLs main has passed to scrape_stats_table for the given stats type
ScrapedUrls(stats_type) ==
    {calls[k].arg : k \in {j \in DOMAIN calls :
        /\ j > 1
        /\ calls[j].fn = "scrape_stats_table"
        /\ calls[j - 1].fn = "generate_filtered_url"
        /\ calls[j - 1].arg = stats_type}}

\* batting position and opposition left empty, result "All", innings "All", player kohli
BlankKohliQuery ==
    /\ pc \in {"bowling", "match", "done", "aborted"}
    /\ player_id = Kohli
    /\ bp = <<>> /\ opp = <<>> /\ res = All /\ inn = All

KohliBlankPath == <<"p","r","o","f","i","l","e","s","/","k","o","h","l","i","/","c","a","r","e","e","r","-","s","t","a","t","s","?","s","t","a","t","s","_","t","y","p","e","=","b","a","t","t","i","n","g","&","t","o","u","r","n","a","m","e","n","t","=","i","p","l">>

\* C1 as stated: with blank filters the batting URL passed to scrape_stats_table
\* ends in profiles/kohli/career-stats?stats_type=batting&tournament=ipl exactly,
\* with no further query parameter.
C1_BlankQueryHasNoFurtherParameters ==
    BlankKohliQuery =>
        \A url \in ScrapedUrls(Batting) : EndsWith(url, <<"/">> \o KohliBlankPath)

\* C1 amended: with blank filters the batting URL passed to scrape_stats_table is
\* the site origin, /profiles/kohli/career-stats?stats_type=batting&tournament=ipl,
\* and then exactly the two date-window parameters &spanmin=<today - 365 days>
\* &spanmax=<today> as YYYY-MM-DD; none of batting_position, opposition, result
\* and innings_number appears.
C1_BlankQueryCarriesOnlyTheDateWindow ==
    BlankKohliQuery =>
        /\ ScrapedUrls(Batting) =
             { Origin \o <<"/">> \o KohliBlankPath
                 \o <<"&","s","p","a","n","m","i","n","=">> \o strftime(MinusDays(today, 365))
                 \o <<"&","s","p","a","n","m","a","x","=">> \o strftime(today) }
        /\ \A url \in ScrapedUrls(Batting) :
             /\ \A key \in {KeyBattingPosition, KeyOpposition, KeyResult, KeyInningsNumber} :
                    ~Contains(key \o <<"=">>, url)
             /\ today = <<2024, 2, 29>> =>
                    EndsWith(url, <<"&","s","p","a","n","m","i","n","=","2","0","2","3","-","0","3","-","0","1",
                                    "&","s","p","a","n","m","a","x","=","2","0","2","4","-","0","2","-","2","9">>)

C1_Witness ==
    /\ BlankKohliQuery
    /\ today = <<2024, 2, 29>>
    /\ Cardinality(ScrapedUrls(Batting)) = 1

\* C3 as stated: no run of main is aborted by an uncaught exception, and a run
\* that got a player name ends with a user-visible message (error, warning, write).
C3_NoRunIsAborted ==
    /\ pc # "aborted"
    /\ exc = ""
    /\ (pc = "done" /\ Truthy(player_name)) =>
          out[Len(out)].kind \in {"error", "warning", "write"}

\* the Profile Resolver has returned the absent value to main
ResolverReturnedAbsent ==
    /\ Len(calls) >= 1
    /\ pc # "resolve"
    /\ exc = ""
    /\ profile_url = None

\* C7: once the Profile Resolver has returned absent, none of get_player_id,
\* generate_filtered_url, scrape_stats_table, get_match_details is invoked, the run
\* is over, and its output after the title is exactly one "player not found" error.
C7_PlayerNotFoundShortCircuit ==
    ResolverReturnedAbsent =>
        /\ pc = "done"
        /\ CalledFns = <<"get_player_profile_url">>
        /\ fetched = <<SearchUrl(player_name)>>
        /\ Len(out) = 2
        /\ out[1].kind = "title"
        /\ out[2] = Shown("error", "Player not found. Please try with another name.", <<>>)

C7_Witness ==
    /\ ResolverReturnedAbsent
    /\ player_name = ViratKohli
    /\ Len(out) = 2

FullPipeline ==
    <<"get_player_profile_url", "get_player_id",
      "generate_filtered_url", "scrape_stats_table",
      "generate_filtered_url", "scrape_stats_table",
      "get_match_details">>

\* C9: stats and match-detail fetches happen only after get_player_id returned an
\* identifier; with no identifier none is attempted; with an identifier the batting
\* scrape, the bowling scrape and the match-detail fetch each happen exactly once,
\* in that order, whether or not a table was found, and no step is retried.
C9_ForwardOnlyFlow ==
    /\ IsPrefix(CalledFns, FullPipeline)
    /\ Len(fetched) <= 4
    /\ \A k \in DOMAIN calls :
          calls[k].fn \in {"scrape_stats_table", "get_match_details"} =>
              /\ Truthy(player_id)
              /\ \E j \in 1..(k - 1) : calls[j].fn = "get_player_id"
    /\ (pc = "done" /\ Len(calls) >= 2 /\ ~Truthy(player_id)) =>
          /\ CalledFns = <<"get_player_profile_url", "get_player_id">>
          /\ Len(fetched) = 1
    /\ (pc \in {"done", "aborted"} /\ Truthy(player_id)) =>
          /\ CalledFns = FullPipeline
          /\ Cardinality(ScrapedUrls(Batting)) = 1
          /\ Cardinality(ScrapedUrls(Bowling)) = 1
          /\ calls[3].arg = Batting /\ calls[5].arg = Bowling
          /\ fetched = <<SearchUrl(player_name), calls[4].arg, calls[6].arg,
                         MatchUrl(player_id)>>

C9_Witness ==
    /\ pc = "done"
    /\ Truthy(player_id)
    /\ batting_df = None /\ bowling_df = None
    /\ CalledFns = FullPipeline

----------------------------------------------------------------------------
(* Properties of the single functions, checked under UnitSpec *)

\* C2 as stated: whatever the search request does, get_player_profile_url returns
\* a profile URL or None and never raises.
C2_ResolverNeverRaises ==
    call.fn = "get_player_profile_url" =>
        /\ ~ret.raised
        /\ (ret.value = None \/ IsPrefix(Origin, ret.value))

\* the anchor at position i of the page has an href containing '/player/'
IsCandidate(page, i) == page[i] # None /\ Contains(PlayerSeg, page[i])

\* C8: on a parsed search page get_player_profile_url returns the origin followed by
\* the href of the first anchor, in document order, whose href contains /player/,
\* whatever follows it; it returns None exactly when no anchor has such an href.
C8_FirstMatchRule ==
    (call.fn = "get_player_profile_url" /\ call.resp.kind = "ok") =>
        LET page == call.resp.page IN
        /\ ~ret.raised
        /\ (ret.value = None) <=> ~(\E i \in DOMAIN page : IsCandidate(page, i))
        /\ \A i \in DOMAIN page :
              (IsCandidate(page, i) /\ \A j \in 1..(i - 1) : ~IsCandidate(page, j))
                  => ret.value = Origin \o page[i]

C8_Witness ==
    /\ call.fn = "get_player_profile_url"
    /\ call.resp.kind = "ok"
    /\ Len(call.resp.page) = 2
    /\ IsCandidate(call.resp.page, 1) /\ IsCandidate(call.resp.page, 2)
    /\ call.resp.page[1] # call.resp.page[2]
    /\ ret.value = Origin \o call.resp.page[1]

\* the least index from `from` on at which s holds c, or 0
RECURSIVE IndexOf(_, _, _)
IndexOf(s, c, from) ==
    IF from > Len(s) THEN 0 ELSE IF s[from] = c THEN from ELSE IndexOf(s, c, from + 1)

\* the least index at which sub starts in s, or 0
FirstOccurrence(sub, s) ==
    IF Contains(sub, s)
    THEN CHOOSE i \in 1..Len(s) :
            /\ SubSeq(s, i, i + Len(sub) - 1) = sub
            /\ \A j \in 1..(i - 1) : SubSeq(s, j, j + Len(sub) - 1) # sub
    ELSE 0

\* the path segment between /player/ and the next '/', None when the URL has no
\* /player/, nothing after it, or no closing '/'
PathSegmentAfterPlayer(url) ==
    LET i == FirstOccurrence(PlayerSeg, url)
        start == i + Len(PlayerSeg)
        close == IndexOf(url, "/", start)
    IN IF i = 0 \/ close = 0 \/ close = start THEN None
       ELSE SubSeq(url, start, close - 1)

\* C5 as stated: get_player_id returns the path segment between /player/ and the
\* next '/', which holds no '/', and None for a URL without that segment.
C5_ReturnsThePathSegment ==
    call.fn = "get_player_id" =>
        /\ ~ret.raised
        /\ ret.value # None => ~Contains(<<"/">>, ret.value)
        /\ ret.value = PathSegmentAfterPlayer(call.url)

Blank(v) == v = None \/ v = <<>>

\* C4: the URL is the base path, '?', stats_type=<type>, &tournament=<tournament>
\* and then one &key=value for each FilterSet entry whose value is not blank (not
\* None and not the empty string), verbatim, in the FilterSet's order; the key of a
\* blank entry does not appear, not even as key= .
C4_QueryBuilderFilterHandling ==
    call.fn = "generate_filtered_url" =>
        LET kept == SelectSeq(call.fs, LAMBDA kv : ~Blank(kv[2]))
            query == StatsTypeEq \o call.stats_type
                       \o <<"&">> \o TournamentEq \o call.tournament
                       \o Flatten([i \in 1..Len(kept) |->
                                      <<"&">> \o kept[i][1] \o <<"=">> \o kept[i][2]])
        IN /\ ~ret.raised
           /\ ret.value = Origin \o ProfilesPath \o call.id \o CareerStats
                            \o <<"?">> \o query
           /\ \A i \in DOMAIN call.fs :
                 Blank(call.fs[i][2]) => ~Contains(call.fs[i][1] \o <<"=">>, ret.value)

C4_Witness ==
    /\ call.fn = "generate_filtered_url"
    /\ call.fs = << <<KeyResult, <<"1">> >>, <<KeyBattingPosition, <<>> >>,
                    <<KeyOpposition, <<" ">> >> >>
    /\ EndsWith(ret.value, <<"&","r","e","s","u","l","t","=","1","&","o","p","p","o","s","i","t","i","o","n","="," ">>)

\* the element at position i of the page is the one scrape_stats_table selects
IsStatsTable(page, i) == page[i].tag = "table" /\ page[i].class = StatsClass

FirstStatsTable(page, i) ==
    IsStatsTable(page, i) /\ \A j \in 1..(i - 1) : ~IsStatsTable(page, j)

\* C6: scrape_stats_table never lets an exception out and returns a table or None;
\* a page without a table of the expected class gives None and no message; a step
\* that raises (the fetch, the parse, the conversion) gives None and a message.
C6_CatchAndDowngrade ==
    call.fn = "scrape_stats_table" =>
        LET resp == call.resp
            page == resp.page
            ConversionRaises ==
                \E i \in DOMAIN page : FirstStatsTable(page, i) /\ page[i].rows = <<>>
        IN /\ ~ret.raised
           /\ (ret.value = None \/ ret.value[1] = "DataFrame")
           /\ (resp.kind = "ok" /\ ~(\E i \in DOMAIN page : IsStatsTable(page, i)))
                 => (ret.value = None /\ ret.printed = <<>>)
           /\ (resp.kind # "ok" \/ ConversionRaises)
                 => (ret.value = None /\ Len(ret.printed) = 1)
           /\ (resp.kind = "ok" /\ ~ConversionRaises
                  /\ \E i \in DOMAIN page : IsStatsTable(page, i))
                 => (ret.value # None /\ ret.printed = <<>>)

C6_Witness ==
    /\ call.fn = "scrape_stats_table"
    /\ call.resp.kind = "ok"
    /\ Len(call.resp.page) = 2
    /\ ~IsStatsTable(call.resp.page, 1)
    /\ IsStatsTable(call.resp.page, 2) /\ call.resp.page[2].rows = <<>>
    /\ ret.value = None
    /\ ret.printed = <<"Error scraping stats: ValueError">>

IsVenueDiv(page, i) == page[i].tag = "div" /\ page[i].class = StatsClass

\* C10: on a fetched page, when a div of the selector's class exists the venue and
\* the pitch report are both the text of the first such div; when none exists both
\* are their placeholders; never is one page text and the other a placeholder.
C10_VenueAndPitchDegenerate ==
    (call.fn = "get_match_details" /\ call.resp.kind = "ok") =>
        LET page == call.resp.page
            venue_name == ret.value[1]
            pitch_info == ret.value[2]
        IN /\ ~ret.raised
           /\ \A i \in DOMAIN page :
                 (IsVenueDiv(page, i) /\ \A j \in 1..(i - 1) : ~IsVenueDiv(page, j))
                     => (venue_name = page[i].text /\ pitch_info = page[i].text)
           /\ ~(\E i \in DOMAIN page : IsVenueDiv(page, i))
                 => (venue_name = NotAvailable /\ pitch_info = PitchNotAvailable)
           /\ (venue_name = NotAvailable) <=> (pitch_info = PitchNotAvailable)

C10_Witness ==
    /\ call.fn = "get_match_details"
    /\ call.resp.kind = "ok"
    /\ Len(call.resp.page) = 2
    /\ IsVenueDiv(call.resp.page, 1) /\ IsVenueDiv(call.resp.page, 2)
    /\ call.resp.page[1].text # call.resp.page[2].text
    /\ ret.value = <<call.resp.page[1].text, call.resp.page[1].text>>

====
